---- MODULE Spec2Model ----
(***************************************************************************)
(* Model of transcribe_basics.py: the two waiter classes and their wait    *)
(* methods, the paginated list_jobs / list_vocabularies wrappers, and the  *)
(* per-object loop of usage_demo.                                          *)
(*                                                                         *)
(* The waiter classes derive from demo_tools.custom_waiter.CustomWaiter,   *)
(* which is imported but not part of the source tree.  Its polling loop    *)
(* (the CustomWaiter_ definitions) is modelled from spec.md section 4.1,   *)
(* and everything else is translated from transcribe_basics.py.           *)
(***************************************************************************)
EXTENDS Integers, Sequences, FiniteSets, TLC

\* Attempt budget of one wait call (spec.md 4.1 leaves the number open).
MaxTries == 3

\* The concurrent wait invocations; invocation w waits on operation key w.
Calls == {1, 2}

VARIABLES
    waiter,    \* waiter[w]: the waiter object wait call w runs on (its WaitSpec)
    name,      \* name[w]: the operation key passed to wait call w
    st,        \* st[w]: state of wait call w's state machine
    attempts,  \* attempts[w]: the status-check queries issued so far, in order
    outcome,   \* outcome[w]: the WaitOutcome the polling helper produced
    ret,       \* ret[w]: what wait handed to its caller
    all_objects,  \* usage_demo: the listed storage objects, in listing order
    cur,          \* usage_demo: index of the object the loop is at
    dpc,          \* usage_demo: the statement of the loop body to run next
    tries,        \* usage_demo: status checks made by the current wait call
    events,       \* usage_demo: the calls made so far, in order
    files,        \* usage_demo: objects whose transcript file is written
    pages,        \* list_*: the pages the service holds for the listing
    list_fn,      \* list_*: the function called (its API and item field)
    lpc,          \* list_*: "idle", "call", "loop", "returned" or "raised"
    next_token,   \* list_*: the local next_token
    jobs,         \* list_*: the local jobs / vocabs accumulator
    requests,     \* list_*: the list requests issued so far, in order
    result        \* list_*: the value returned to the caller

waitVars == <<waiter, name, st, attempts, outcome, ret>>
demoVars == <<all_objects, cur, dpc, tries, events, files>>
listVars == <<pages, list_fn, lpc, next_token, jobs, requests, result>>
vars == <<waitVars, demoVars, listVars>>

\* Largest number of storage objects in the listing usage_demo walks.
MaxObjects == 3

\* Largest number of pages of a listing, and of items on a page.
MaxPages == 3
MaxItems == 2

----------------------------------------------------------------------------
(* WaitState of demo_tools.custom_waiter, and the PENDING default.         *)
SUCCESS == "SUCCESS"
FAILURE == "FAILURE"
PENDING == "PENDING_DEFAULT"

(* The per-invocation state machine of spec.md 4.1.                        *)
POLLING == "POLLING"
TerminalStates == {"SUCCEEDED", "FAILED", "TIMED_OUT", "QUERY_ERROR"}
WaitStates == {POLLING} \cup TerminalStates

ReasonFailed == "operation reported failure status"
ReasonTimedOut == "timed out waiting for terminal state"
ReasonQuery == "query failed"

NoResponse == [none |-> TRUE]
NoOutcome == [tag |-> "Pending", response |-> NoResponse, reason |-> ""]
Success(r) == [tag |-> "Success", response |-> r, reason |-> ""]
Failure(r, why) == [tag |-> "Failure", response |-> r, reason |-> why]
QueryError == [tag |-> "QueryError", response |-> NoResponse, reason |-> ReasonQuery]

(* Values a caller of wait can observe.                                    *)
Running == [tag |-> "Running", response |-> NoResponse, reason |-> ""]
None == [tag |-> "None", response |-> NoResponse, reason |-> ""]
Raised(why) == [tag |-> "Raised", response |-> NoResponse, reason |-> why]

----------------------------------------------------------------------------
(* The waiter classes: the arguments their __init__ hands to CustomWaiter. *)

(* Faulty variant: a vocabulary waiter that also maps FAILED.               *)
VocabularyReadyWaiterWithFailed ==
    [name |-> "VocabularyReady", operation |-> "GetVocabulary",
     argument |-> <<"VocabularyState">>,
     acceptors |-> ("READY" :> SUCCESS) @@ ("FAILED" :> FAILURE)]

TranscribeCompleteWaiter ==
    [name |-> "TranscribeComplete", operation |-> "GetTranscriptionJob",
     argument |-> <<"TranscriptionJob", "TranscriptionJobStatus">>,
     acceptors |-> ("COMPLETED" :> SUCCESS) @@ ("FAILED" :> FAILURE)]

VocabularyReadyWaiter ==
    [name |-> "VocabularyReady", operation |-> "GetVocabulary",
     argument |-> <<"VocabularyState">>,
     acceptors |-> ("READY" :> SUCCESS)]

Waiters == {TranscribeCompleteWaiter, VocabularyReadyWaiter}

(* wait(job_name) / wait(vocabulary_name): the keyword arguments of the    *)
(* one self._wait call, i.e. the status-check request of every attempt.    *)
(* Faulty variant: the operation key is hard-coded.                        *)
wait_fixed_name(w, operation_key) ==
    [operation |-> w.operation, key |-> 1]

wait(w, operation_key) ==
    [operation |-> w.operation, key |-> operation_key]

(* What wait gives its caller once self._wait has finished with outcome o: *)
(* the method has no return statement and no exception handler, so a       *)
(* result is dropped and an exception passes through.                      *)
(* Faulty variant: a blanket except clause around self._wait.              *)
wait_swallows(o) == None

wait_result(o) ==
    IF o.tag = "QueryError" THEN Raised(o.reason) ELSE None

(* wait is one call of self._wait and nothing after it: the call is still  *)
(* executing exactly while that one polling loop is.                       *)
(* Faulty variant: wait calls self._wait again after a query error.        *)
wait_retries(state) == state \in {POLLING, "QUERY_ERROR"}

wait_active(state) == state = POLLING

----------------------------------------------------------------------------
(* The service behind the status-check operation.                          *)

StatusValues(operation) ==
    IF operation = "GetTranscriptionJob"
    THEN {"QUEUED", "IN_PROGRESS", "COMPLETED", "FAILED"}
    ELSE {"PENDING", "READY", "FAILED"}

Invoke(request, status) ==
    IF request.operation = "GetTranscriptionJob"
    THEN [TranscriptionJob |->
             [TranscriptionJobName |-> request.key,
              TranscriptionJobStatus |-> status]]
    ELSE [VocabularyName |-> request.key, VocabularyState |-> status]

ResponseKey(r) ==
    IF "TranscriptionJob" \in DOMAIN r
    THEN r.TranscriptionJob.TranscriptionJobName
    ELSE r.VocabularyName

----------------------------------------------------------------------------
(* CustomWaiter: the generic polling helper (spec.md 4.1).                 *)

RECURSIVE CustomWaiter_extract(_, _)
CustomWaiter_extract(value, path) ==
    IF path = <<>> THEN value
    ELSE IF Head(path) \in DOMAIN value
         THEN CustomWaiter_extract(value[Head(path)], Tail(path))
         ELSE "<missing>"

CustomWaiter_classify(acceptors, status) ==
    IF status \in DOMAIN acceptors THEN acceptors[status] ELSE PENDING

Classify(w, response) ==
    CustomWaiter_classify(w.acceptors, CustomWaiter_extract(response, w.argument))

(* One iteration of the polling loop: attempt number n has either raised   *)
(* or returned `response`.                                                 *)
CustomWaiter_wait(w, n, raised, response) ==
    IF raised THEN [state |-> "QUERY_ERROR", outcome |-> QueryError]
    ELSE LET c == Classify(w, response) IN
         IF c = SUCCESS
         THEN [state |-> "SUCCEEDED", outcome |-> Success(response)]
         ELSE IF c = FAILURE
         THEN [state |-> "FAILED", outcome |-> Failure(response, ReasonFailed)]
         ELSE IF n >= MaxTries
         THEN [state |-> "TIMED_OUT", outcome |-> Failure(response, ReasonTimedOut)]
         ELSE [state |-> POLLING, outcome |-> NoOutcome]

----------------------------------------------------------------------------
(* Concurrent wait calls.                                                  *)

WaitInit ==
    /\ waiter \in [Calls -> Waiters]
    /\ name = [w \in Calls |-> w]
    /\ st = [w \in Calls |-> POLLING]
    /\ attempts = [w \in Calls |-> <<>>]
    /\ outcome = [w \in Calls |-> NoOutcome]
    /\ ret = [w \in Calls |-> Running]

Attempt(request, raised, response) ==
    [request |-> request, raised |-> raised, response |-> response]

(* One status-check query of wait call w and what the loop does with it.   *)
Step(w, raised, response) ==
    LET request == wait(waiter[w], name[w])
        n == Len(attempts[w]) + 1
        r == CustomWaiter_wait(waiter[w], n, raised, response)
    IN /\ attempts' = [attempts EXCEPT ![w] = Append(@, Attempt(request, raised, response))]
       /\ st' = [st EXCEPT ![w] = r.state]
       /\ outcome' = [outcome EXCEPT ![w] = r.outcome]
       /\ ret' = [ret EXCEPT ![w] =
                     IF r.state = POLLING THEN Running ELSE wait_result(r.outcome)]
       /\ UNCHANGED <<waiter, name, demoVars, listVars>>

Poll(w) ==
    /\ wait_active(st[w])
    /\ \E status \in StatusValues(wait(waiter[w], name[w]).operation) :
           Step(w, FALSE, Invoke(wait(waiter[w], name[w]), status))

PollRaises(w) ==
    /\ wait_active(st[w])
    /\ Step(w, TRUE, NoResponse)

WaitIdle ==
    /\ waiter = [w \in Calls |-> TranscribeCompleteWaiter]
    /\ name = [w \in Calls |-> w]
    /\ st = [w \in Calls |-> POLLING]
    /\ attempts = [w \in Calls |-> <<>>]
    /\ outcome = [w \in Calls |-> NoOutcome]
    /\ ret = [w \in Calls |-> Running]

----------------------------------------------------------------------------
(* usage_demo: the loop over the listed objects.                           *)

(* The calls of the loop body, in statement order.                         *)
(* Faulty variant: get_job is called before the wait.                      *)
usage_demo_get_before_wait == <<"start_job", "get_job", "wait", "download", "write">>

usage_demo_body == <<"start_job", "wait", "get_job", "download", "write">>

(* No statement of the loop sits in a try block: an exception leaves       *)
(* usage_demo, a normal return runs the next statement.                    *)
(* Faulty variant: an exception moves on to the next object.               *)
usage_demo_skips_object(stmt, raised) ==
    IF raised THEN "next_object"
    ELSE IF stmt = usage_demo_body[Len(usage_demo_body)] THEN "next_object"
    ELSE "next_statement"

usage_demo_after(stmt, raised) ==
    IF raised THEN "raised"
    ELSE IF stmt = usage_demo_body[Len(usage_demo_body)] THEN "next_object"
    ELSE "next_statement"

Position(stmt) == CHOOSE i \in 1..Len(usage_demo_body) : usage_demo_body[i] = stmt

Event(op, obj, end) == [op |-> op, obj |-> obj, end |-> end]

DemoIdle ==
    /\ all_objects = <<>>
    /\ cur = 1
    /\ dpc = "done"
    /\ tries = 0
    /\ events = <<>>
    /\ files = {}

DemoInit ==
    /\ \E n \in 0..MaxObjects : all_objects = [i \in 1..n |-> i]
    /\ cur = 1
    /\ dpc = IF all_objects = <<>> THEN "done" ELSE usage_demo_body[1]
    /\ tries = 0
    /\ events = <<>>
    /\ files = {}

(* Statement stmt of the loop body has ended, by returning or by raising.  *)
Finish(stmt, raised, end) ==
    LET after == usage_demo_after(stmt, raised) IN
    /\ events' = Append(events, Event(stmt, cur, end))
    /\ tries' = 0
    /\ files' = IF stmt = "write" /\ ~raised THEN files \cup {cur} ELSE files
    /\ IF after = "raised"
       THEN dpc' = "raised" /\ cur' = cur
       ELSE IF after = "next_object"
       THEN /\ cur' = cur + 1
            /\ dpc' = IF cur + 1 > Len(all_objects) THEN "done"
                      ELSE usage_demo_body[1]
       ELSE /\ cur' = cur
            /\ dpc' = usage_demo_body[Position(stmt) + 1]
    /\ UNCHANGED <<all_objects, waitVars, listVars>>

(* start_job: logs and re-raises a ClientError.                            *)
DemoStartJob ==
    /\ dpc = "start_job"
    /\ \E raised \in BOOLEAN :
          Finish("start_job", raised, IF raised THEN "raised" ELSE "ok")

(* TranscribeCompleteWaiter(transcribe_client).wait(job_name_simple): one  *)
(* status check of the wait call, and the return of wait when it was the   *)
(* last one.                                                               *)
DemoWait ==
    /\ dpc = "wait"
    /\ \E raised \in BOOLEAN :
       \E status \in StatusValues(TranscribeCompleteWaiter.operation) :
          LET request == wait(TranscribeCompleteWaiter, cur)
              r == CustomWaiter_wait(TranscribeCompleteWaiter, tries + 1, raised,
                                     Invoke(request, status))
          IN IF r.state = POLLING
             THEN /\ events' = Append(events, Event("wait", cur, "pending"))
                  /\ tries' = tries + 1
                  /\ UNCHANGED <<all_objects, cur, dpc, files, waitVars, listVars>>
             ELSE Finish("wait", wait_result(r.outcome).tag = "Raised", r.state)

(* get_job: logs and re-raises a ClientError.                              *)
DemoGetJob ==
    /\ dpc = "get_job"
    /\ \E raised \in BOOLEAN :
          Finish("get_job", raised, IF raised THEN "raised" ELSE "ok")

(* requests.get(job_simple['Transcript']['TranscriptFileUri']).json()      *)
DemoDownload ==
    /\ dpc = "download"
    /\ \E raised \in BOOLEAN :
          Finish("download", raised, IF raised THEN "raised" ELSE "ok")

(* mkdir, open(out_file_name, 'w') and json.dump                           *)
DemoWrite ==
    /\ dpc = "write"
    /\ \E raised \in BOOLEAN :
          Finish("write", raised, IF raised THEN "raised" ELSE "ok")

DemoNext ==
    \/ DemoStartJob
    \/ DemoWait
    \/ DemoGetJob
    \/ DemoDownload
    \/ DemoWrite

----------------------------------------------------------------------------
(* list_jobs and list_vocabularies.                                        *)

list_jobs == [api |-> "ListTranscriptionJobs", field |-> "TranscriptionJobSummaries"]
list_vocabularies == [api |-> "ListVocabularies", field |-> "Vocabularies"]

NoToken == <<>>
NoResult == [returned |-> FALSE, value |-> <<>>]

(* jobs += response[...] / vocabs += response[...]                         *)
(* Faulty variant: = instead of +=.                                        *)
list_overwrite(acc, items) == items

list_accumulate(acc, items) == acc \o items

(* while next_token is not None                                            *)
list_continue(token) == token # NoToken

(* The listing service: page 1 without a token, page p for token <<p>>.    *)
PageOf(token) == IF token = NoToken THEN 1 ELSE token[1]

ListResponse(api, token) ==
    LET p == PageOf(token) IN
    [api |-> api, items |-> pages[p],
     NextToken |-> IF p < Len(pages) THEN <<p + 1>> ELSE NoToken]

ListIdle ==
    /\ pages = <<>>
    /\ list_fn = list_jobs
    /\ lpc = "idle"
    /\ next_token = NoToken
    /\ jobs = <<>>
    /\ requests = <<>>
    /\ result = NoResult

ListInit ==
    /\ \E n \in 1..MaxPages : \E lens \in [1..n -> 0..MaxItems] :
          pages = [p \in 1..n |-> [j \in 1..lens[p] |-> <<p, j>>]]
    /\ list_fn \in {list_jobs, list_vocabularies}
    /\ lpc = "call"
    /\ next_token = NoToken
    /\ jobs = <<>>
    /\ requests = <<>>
    /\ result = NoResult

(* One list request with `token` and everything the function does with the *)
(* response up to the next request, the return or the re-raise.            *)
ListRequest(token, first, raised) ==
    LET response == ListResponse(list_fn.api, token)
        acc == IF first THEN response.items
               ELSE list_accumulate(jobs, response.items)
    IN /\ requests' = Append(requests,
                         [api |-> list_fn.api, token |-> token, raised |-> raised,
                          next |-> IF raised THEN NoToken ELSE response.NextToken])
       /\ IF raised
          THEN /\ lpc' = "raised"
               /\ UNCHANGED <<jobs, next_token, result>>
          ELSE /\ jobs' = acc
               /\ next_token' = response.NextToken
               /\ IF list_continue(response.NextToken)
                  THEN lpc' = "loop" /\ result' = result
                  ELSE lpc' = "returned" /\ result' = [returned |-> TRUE, value |-> acc]
       /\ UNCHANGED <<pages, list_fn, waitVars, demoVars>>

ListCall ==
    /\ lpc = "call"
    /\ \E raised \in BOOLEAN : ListRequest(NoToken, TRUE, raised)

ListLoop ==
    /\ lpc = "loop"
    /\ \E raised \in BOOLEAN : ListRequest(next_token, FALSE, raised)

ListNext ==
    \/ ListCall
    \/ ListLoop

----------------------------------------------------------------------------
Init == WaitInit /\ DemoIdle /\ ListIdle

Next ==
    \/ \E w \in Calls : Poll(w)
    \/ \E w \in Calls : PollRaises(w)

Spec == Init /\ [][Next]_vars

InitDemo == WaitIdle /\ DemoInit /\ ListIdle

SpecDemo == InitDemo /\ [][DemoNext]_vars

InitList == WaitIdle /\ DemoIdle /\ ListInit

SpecList == InitList /\ [][ListNext]_vars

----------------------------------------------------------------------------
(* Properties of the wait calls.                                           *)

IsPending(w, a) == ~a.raised /\ Classify(waiter[w], a.response) = PENDING
IsSuccess(w, a) == ~a.raised /\ Classify(waiter[w], a.response) = SUCCESS
IsFailure(w, a) == ~a.raised /\ Classify(waiter[w], a.response) = FAILURE

PendingBefore(w, k) == \A i \in 1..(k - 1) : IsPending(w, attempts[w][i])

Status(w, a) == CustomWaiter_extract(a.response, waiter[w].argument)

(* The polling helper itself produces the outcomes of spec.md 4.1: this is *)
(* what the loop hands back to wait, before wait decides what its own      *)
(* caller sees.                                                            *)
HelperOutcome ==
    \A w \in Calls :
        LET k == Len(attempts[w]) IN
        /\ k <= MaxTries
        /\ (k >= 1 /\ PendingBefore(w, k) /\ IsSuccess(w, attempts[w][k]))
               => outcome[w] = Success(attempts[w][k].response)
        /\ (k >= 1 /\ PendingBefore(w, k) /\ IsFailure(w, attempts[w][k]))
               => outcome[w] = Failure(attempts[w][k].response, ReasonFailed)
        /\ (k = MaxTries /\ PendingBefore(w, k + 1))
               => outcome[w] = Failure(attempts[w][k].response, ReasonTimedOut)

(* C1: when the first k-1 responses classify as PENDING and the k-th as    *)
(* SUCCESS, wait has issued exactly k queries, is finished, and has        *)
(* returned Success carrying the k-th response to its caller.              *)
C1_WaitReturnsSuccess ==
    \A w \in Calls :
        LET k == Len(attempts[w]) IN
        (k >= 1 /\ PendingBefore(w, k) /\ IsSuccess(w, attempts[w][k]))
            => /\ k <= MaxTries
               /\ st[w] = "SUCCEEDED"
               /\ ret[w] = Success(attempts[w][k].response)

(* C2: when a response classifies as FAILURE, wait stops at that query and *)
(* returns Failure(response, "operation reported failure status") to its   *)
(* caller as an ordinary value.                                            *)
C2_WaitReturnsFailure ==
    \A w \in Calls :
        LET k == Len(attempts[w]) IN
        \A i \in 1..k :
            IsFailure(w, attempts[w][i])
                => /\ i = k
                   /\ st[w] = "FAILED"
                   /\ ret[w] = Failure(attempts[w][k].response, ReasonFailed)

(* C3: wait never issues more than MaxTries queries, and when all MaxTries *)
(* responses classify as PENDING it returns Failure with the timed-out     *)
(* reason to its caller as a value.                                        *)
C3_WaitReturnsTimedOut ==
    \A w \in Calls :
        LET k == Len(attempts[w]) IN
        /\ k <= MaxTries
        /\ (k = MaxTries /\ PendingBefore(w, k + 1))
               => /\ st[w] = "TIMED_OUT"
                  /\ ret[w] = Failure(attempts[w][k].response, ReasonTimedOut)

(* C4: a status-check call that raises on attempt i ends wait at once: the *)
(* error reaches the caller as a raised "query failed" error, no attempt   *)
(* i+1 exists, and what the caller sees differs from what it sees after an *)
(* operation failure or a timeout.                                         *)
C4_QueryErrorPropagates ==
    \A w \in Calls :
        \A i \in 1..Len(attempts[w]) :
            attempts[w][i].raised
                => /\ i = Len(attempts[w])
                   /\ st[w] = "QUERY_ERROR"
                   /\ ret[w] = Raised(ReasonQuery)
                   /\ \A v \in Calls :
                          st[v] \in {"FAILED", "TIMED_OUT"} => ret[v] # ret[w]

C4_Witness ==
    /\ Len(attempts[1]) = 2 /\ attempts[1][2].raised /\ ret[1].tag = "Raised"
    /\ st[2] = "FAILED"

(* C5: a status that is not a key of the waiter's outcome map neither ends *)
(* nor fails the wait: polling goes on while budget remains.  For the      *)
(* vocabulary waiter this is every status other than READY, FAILED         *)
(* included.                                                               *)
Continues(w, i) ==
    \/ i < Len(attempts[w])
    \/ /\ i = Len(attempts[w])
       /\ IF i < MaxTries
          THEN st[w] = POLLING /\ ret[w] = Running
          ELSE st[w] = "TIMED_OUT" /\ ret[w].tag # "Raised"

C5_UnmappedIsPending ==
    \A w \in Calls :
        \A i \in 1..Len(attempts[w]) :
            LET a == attempts[w][i] IN
            /\ (~a.raised /\ Status(w, a) \notin DOMAIN waiter[w].acceptors)
                   => Continues(w, i)
            /\ (~a.raised /\ waiter[w].name = "VocabularyReady"
                    /\ Status(w, a) # "READY")
                   => Continues(w, i)

C5_Witness ==
    /\ waiter[1].name = "VocabularyReady"
    /\ Len(attempts[1]) = 2
    /\ Status(1, attempts[1][1]) = "FAILED"
    /\ Status(1, attempts[1][2]) = "READY"
    /\ st[1] = "SUCCEEDED"
    /\ waiter[2].name = "TranscribeComplete"
    /\ Len(attempts[2]) = 1
    /\ Status(2, attempts[2][1]) = "QUEUED"
    /\ st[2] = POLLING

(* C6: a wait call is always in POLLING or one of the four terminal        *)
(* states, starts in POLLING, and once it is in a terminal state nothing   *)
(* about it changes any more: no further query, the same outcome.          *)
C6_TerminalIsFinal ==
    /\ \A w \in Calls : st[w] = POLLING /\ attempts[w] = <<>>
    /\ [][\A w \in Calls :
             /\ st'[w] \in WaitStates
             /\ st[w] \in TerminalStates
                   => /\ st'[w] = st[w]
                      /\ attempts'[w] = attempts[w]
                      /\ outcome'[w] = outcome[w]
                      /\ ret'[w] = ret[w]]_vars

C6_Witness ==
    /\ st[1] = "QUERY_ERROR" /\ Len(attempts[1]) = 1
    /\ st[2] = "TIMED_OUT" /\ Len(attempts[2]) = MaxTries

(* C7: a wait call talks only about its own operation key, leaves the      *)
(* waiter object untouched, and its query count and outcome are those of   *)
(* the same responses handled by a wait call running alone.                *)
RECURSIVE Alone(_, _, _)
Alone(w, log, n) ==
    IF log = <<>> THEN [state |-> POLLING, outcome |-> NoOutcome, queries |-> n]
    ELSE LET r == CustomWaiter_wait(w, n + 1, Head(log).raised, Head(log).response)
         IN IF r.state = POLLING
            THEN Alone(w, Tail(log), n + 1)
            ELSE [state |-> r.state, outcome |-> r.outcome, queries |-> n + 1]

C7_CallsAreIndependent ==
    /\ [](\A w \in Calls :
            LET alone == Alone(waiter[w], attempts[w], 0) IN
            /\ \A i \in 1..Len(attempts[w]) :
                   /\ attempts[w][i].request.key = name[w]
                   /\ ~attempts[w][i].raised
                         => ResponseKey(attempts[w][i].response) = name[w]
            /\ Len(attempts[w]) = alone.queries
            /\ st[w] = alone.state
            /\ outcome[w] = alone.outcome
            /\ ret[w] = IF alone.state = POLLING THEN Running
                        ELSE wait_result(alone.outcome))
    /\ [][waiter' = waiter /\ name' = name]_vars

C7_Witness ==
    /\ waiter[1] = waiter[2]
    /\ st[1] = "SUCCEEDED" /\ Len(attempts[1]) = 3
    /\ st[2] = "FAILED" /\ Len(attempts[2]) = 1

(* C8: the outcome map of every waiter classifies at least one status as   *)
(* SUCCESS and at least one as FAILURE.                                    *)
C8_MapHasSuccessAndFailure ==
    \A w \in Calls :
        /\ \E s \in DOMAIN waiter[w].acceptors : waiter[w].acceptors[s] = SUCCESS
        /\ \E s \in DOMAIN waiter[w].acceptors : waiter[w].acceptors[s] = FAILURE

----------------------------------------------------------------------------
(* Properties of usage_demo.                                               *)

Rank(op) ==
    CASE op = "start_job" -> 1
      [] op = "wait" -> 2
      [] op = "get_job" -> 3
      [] op = "download" -> 4
      [] op = "write" -> 5

WaitReturned(e) == e.op = "wait" /\ e.end \in {"SUCCEEDED", "FAILED", "TIMED_OUT"}
WaitEnded(e) == e.op = "wait" /\ e.end # "pending"
Threw(e) == e.end \in {"raised", "QUERY_ERROR"}

(* Jobs the demo has started whose wait call has not ended.                *)
BeingWaitedOn ==
    {o \in 1..Len(all_objects) :
        /\ \E i \in 1..Len(events) : events[i] = Event("start_job", o, "ok")
        /\ ~\E i \in 1..Len(events) : events[i].obj = o /\ WaitEnded(events[i])}

(* C9: usage_demo handles the listed objects one at a time in listing      *)
(* order, each with start_job, wait, get_job, download, file write in that *)
(* order; get_job only after the job's wait has returned; the next         *)
(* start_job only after the current file is written; at most one job is    *)
(* being waited on; an exception ends the loop with every later object     *)
(* unsubmitted.                                                            *)
C9_DemoIsSequential ==
    /\ \A i \in 1..Len(events) :
          LET e == events[i] IN
          /\ e.obj \in 1..Len(all_objects)
          /\ i = 1 => e.op = "start_job" /\ e.obj = 1
          /\ i > 1 =>
                LET p == events[i - 1] IN
                /\ ~Threw(p)
                /\ IF p.op = "wait" /\ p.end = "pending"
                   THEN e.op = "wait" /\ e.obj = p.obj
                   ELSE IF p.op = "write"
                   THEN e.op = "start_job" /\ e.obj = p.obj + 1
                   ELSE e.obj = p.obj /\ Rank(e.op) = Rank(p.op) + 1
          /\ e.op = "get_job" =>
                \E j \in 1..(i - 1) :
                    events[j].obj = e.obj /\ WaitReturned(events[j])
          /\ (e.op = "start_job" /\ e.obj > 1) =>
                /\ \E j \in 1..(i - 1) : events[j] = Event("write", e.obj - 1, "ok")
                /\ (e.obj - 1) \in files
    /\ Cardinality(BeingWaitedOn) <= 1
    /\ dpc = "raised" =>
          /\ events # <<>> /\ Threw(events[Len(events)])
          /\ \A i \in 1..Len(events) : events[i].obj <= cur
          /\ files = 1..(cur - 1)
    /\ dpc = "done" => files = 1..Len(all_objects)

C9_Witness ==
    /\ Len(all_objects) = 3
    /\ dpc = "raised" /\ cur = 2 /\ files = {1}
    /\ events[Len(events)] = Event("get_job", 2, "raised")
    /\ \E i \in 1..Len(events) : events[i] = Event("wait", 1, "pending")

----------------------------------------------------------------------------
(* Properties of list_jobs and list_vocabularies.                          *)

RECURSIVE Concat(_)
Concat(ps) == IF ps = <<>> THEN <<>> ELSE Head(ps) \o Concat(Tail(ps))

(* C10: the list functions request page after page, each request carrying  *)
(* the NextToken of the response before it, as long as that response had   *)
(* one; they return the items of all pages in page order after a response  *)
(* without NextToken, and return nothing when a request raises.            *)
C10_PaginationIsComplete ==
    LET k == Len(requests) IN
    /\ \A i \in 1..k :
          /\ requests[i].api = list_fn.api
          /\ PageOf(requests[i].token) = i
          /\ i = 1 => requests[i].token = NoToken
          /\ i > 1 => /\ ~requests[i - 1].raised
                      /\ requests[i - 1].next # NoToken
                      /\ requests[i].token = requests[i - 1].next
    /\ lpc = "call" => k = 0 /\ result = NoResult
    /\ lpc = "loop" =>
          /\ k >= 1 /\ ~requests[k].raised /\ requests[k].next # NoToken
          /\ result = NoResult
    /\ lpc = "returned" =>
          /\ k = Len(pages)
          /\ ~requests[k].raised /\ requests[k].next = NoToken
          /\ result = [returned |-> TRUE, value |-> Concat(pages)]
    /\ lpc = "raised" =>
          /\ k >= 1 /\ requests[k].raised
          /\ result = NoResult

C10_Witness ==
    /\ lpc = "returned"
    /\ list_fn = list_vocabularies
    /\ Len(pages) = 3
    /\ Len(requests) = 3
    /\ Len(result.value) = 4

====
